---- MODULE Spec2Model ----
(***************************************************************************)
(* Session issuance and validation of the Flask backend                    *)
(* (src/backend/app.py): the in-memory SESSIONS map, POST /api/login and    *)
(* GET /api/portfolio.                                                      *)
(*                                                                         *)
(* Text that the code parses (cookie values, the Authorization header,     *)
(* tokens) is a sequence of atoms: an atom is a run of characters that the *)
(* code never splits ("Bearer", one blank, a whole hex token, ...).        *)
(* JSON values are records [t |-> type, v |-> payload].                    *)
(***************************************************************************)
EXTENDS Integers, Naturals, Sequences, FiniteSets, TLC

\* Number of distinct values secrets.token_hex(16) can return in the model.
MaxTokens == 3

\* Number of concurrent request threads in SpecConc.
MaxThreads == 3

-----------------------------------------------------------------------------
(* Values *)

SESSION_COOKIE == "ibkr_session"

\* The possible results of secrets.token_hex(16): one-atom hex texts.
Tokens == {<<ToString(i)>> : i \in 1..MaxTokens}

\* A text that is no token: not hex, so token_hex never returns it.
Junk == <<"zz">>

Str(s) == [t |-> "str", v |-> s]
Num(s) == [t |-> "num", v |-> s]
Null == [t |-> "null", v |-> ""]
JsonDict(d) == [t |-> "dict", v |-> d]
JsonList(l) == [t |-> "list", v |-> l]
PyNone == [t |-> "none", v |-> ""]

\* Python truthiness of a parsed JSON value (or None).
PyTruthy(x) ==
  CASE x.t = "str" -> x.v # ""
    [] x.t = "num" -> x.v # "0"
    [] x.t = "list" -> x.v # <<>>
    [] x.t = "dict" -> DOMAIN x.v # {}
    [] OTHER -> FALSE

\* dict.get(key, default)
DictGet(d, key, default) == IF key \in DOMAIN d THEN d[key] ELSE default

\* Values a JSON object may carry under "username" / "password".
FieldVals == {Null, Str(""), Str("alice"), Str("bob"), Num("7")}

LoginKeys == {"username", "password"}

\* What request.get_json(silent=True) can return: None (no body, not JSON),
\* an object with any subset of the two keys, or a JSON value that is no object.
DictBodies == {JsonDict(d) : d \in UNION {[K -> FieldVals] : K \in SUBSET LoginKeys}}

NonDictBodies ==
  {JsonList(<<>>), JsonList(<<Num("1")>>), Str(""), Str("alice"), Num("0"), Num("5")}

Bodies == {PyNone} \cup DictBodies \cup NonDictBodies

-----------------------------------------------------------------------------
(* Text helpers *)

BearerPrefix == <<"Bearer", " ">>

\* str.removeprefix(prefix)
removeprefix(s, prefix) ==
  IF Len(s) >= Len(prefix) /\ SubSeq(s, 1, Len(prefix)) = prefix
    THEN SubSeq(s, Len(prefix) + 1, Len(s))
    ELSE s

RECURSIVE lstrip(_)
lstrip(s) == IF s # <<>> /\ Head(s) = " " THEN lstrip(Tail(s)) ELSE s

RECURSIVE rstrip(_)
rstrip(s) ==
  IF s # <<>> /\ s[Len(s)] = " " THEN rstrip(SubSeq(s, 1, Len(s) - 1)) ELSE s

\* str.strip()
strip(s) == rstrip(lstrip(s))

-----------------------------------------------------------------------------
(* Requests and responses *)

NoCookies == [n \in {} |-> <<>>]
CookieJar(value) == [n \in {SESSION_COOKIE} |-> value]

NoHeaders == [n \in {} |-> <<>>]
Authorization(value) == [n \in {"Authorization"} |-> value]

CookieValues == {<<>>, Junk} \cup Tokens

Cookies == {NoCookies} \cup {CookieJar(c) : c \in CookieValues}

\* Authorization header values: the scheme spelled as the code expects it,
\* the bare credential, extra blanks, another spelling, and the scheme alone.
HeaderValues ==
  {<<"Bearer", " ">>}
    \cup UNION {{<<"Bearer", " ">> \o p, p, <<"Bearer", " ", " ">> \o p \o <<" ">>,
                 <<"bearer", " ">> \o p} : p \in Tokens \cup {Junk}}

Headers == {NoHeaders} \cup {Authorization(h) : h \in HeaderValues}

NoData == [positions |-> <<>>, cash |-> 0]

NoRequest == [route |-> "none", body |-> PyNone, cookies |-> NoCookies, headers |-> NoHeaders]

LoginRequest(body) ==
  [route |-> "login", body |-> body, cookies |-> NoCookies, headers |-> NoHeaders]

PortfolioRequest(cookies, headers) ==
  [route |-> "portfolio", body |-> PyNone, cookies |-> cookies, headers |-> headers]

Response(status, error, ok, token, set_cookie, data) ==
  [status |-> status, error |-> error, ok |-> ok, token |-> token,
   set_cookie |-> set_cookie, data |-> data]

NoResponse == Response(0, "", FALSE, <<>>, NoCookies, NoData)

\* jsonify({"error": msg}), 401
ErrorResponse(msg) == Response(401, msg, FALSE, <<>>, NoCookies, NoData)

\* An exception escaping the view function: Flask answers 500.
ServerError == Response(500, "internal server error", FALSE, <<>>, NoCookies, NoData)

LoginOkWithoutCookie(token) == Response(200, "", TRUE, token, NoCookies, NoData)

\* make_response(jsonify({"ok": True, "token": token})) with the cookie set.
LoginOk(token) == Response(200, "", TRUE, token, CookieJar(token), NoData)

\* jsonify(data)
DataResponse(data) == Response(200, "", FALSE, <<>>, NoCookies, data)

-----------------------------------------------------------------------------
(* The program *)

VARIABLES
  SESSIONS,   \* the process-wide dict: token -> username
  generated,  \* the values secrets.token_hex has returned so far
  req,        \* the request handled last
  resp,       \* its response
  before,     \* history: SESSIONS when that request arrived
  first,      \* history: each returned token -> the username of the login that first returned it
  th          \* SpecConc: the request threads

vars == <<SESSIONS, generated, req, resp, before, first, th>>

EmptyMap == [k \in {} |-> Str("")]

mock_login_either(username, password) == PyTruthy(username) \/ PyTruthy(password)

\* bool(username and password)
mock_login(username, password) == PyTruthy(username) /\ PyTruthy(password)

\* Prices and pnl in hundredths.
Positions ==
  <<[symbol |-> "AAPL", quantity |-> 120, price |-> 18742, pnl |-> 14160],
    [symbol |-> "MSFT", quantity |-> 80, price |-> 42215, pnl |-> -5120],
    [symbol |-> "DMSO", quantity |-> 800, price |-> 100000, pnl |-> 100000]>>

mock_fetch_portfolio_per_user(arg) ==
  [positions |-> Positions, cash |-> IF arg = <<"1">> THEN 18250 ELSE 0]

\* The argument is ignored.
mock_fetch_portfolio(arg) == [positions |-> Positions, cash |-> 18250]

validate_token_nonempty(token, S) == token # <<>>

\* token in SESSIONS
validate_token(token, S) == token \in DOMAIN S

token_hex_repeating(drawn) == Tokens

\* secrets.token_hex(16): 128 bits from the system's CSPRNG.  Outputs are
\* modelled as pairwise distinct (no value is drawn twice); the code itself
\* never compares a new token with the keys of SESSIONS.
token_hex(drawn) == Tokens \ drawn

SetItemReplacing(S, key, value) == [k \in {key} |-> value]

\* SESSIONS[key] = value
SetItem(S, key, value) ==
  [k \in DOMAIN S \cup {key} |-> IF k = key THEN value ELSE S[k]]

\* request.get_json(silent=True) or {}
get_json_or_empty(body) == IF PyTruthy(body) THEN body ELSE JsonDict(EmptyMap)

\* Whether login() gets as far as drawing a token for this body.
login_draws_token(body) ==
  LET data == get_json_or_empty(body) IN
    /\ data.t = "dict"
    /\ mock_login(DictGet(data.v, "username", Str("")), DictGet(data.v, "password", Str("")))

\* login(): the response and the SESSIONS it leaves.  `token` is the value
\* token_hex returns if the handler gets that far.  data.get on a value
\* that is no dict raises AttributeError.
login_handler(body, token, S) ==
  LET data == get_json_or_empty(body) IN
    IF data.t # "dict"
      THEN [resp |-> ServerError, sessions |-> S]
      ELSE LET username == DictGet(data.v, "username", Str(""))
               password == DictGet(data.v, "password", Str(""))
           IN IF ~mock_login(username, password)
                THEN [resp |-> ErrorResponse("invalid credentials"), sessions |-> S]
                ELSE [resp |-> LoginOk(token), sessions |-> SetItem(S, token, username)]

\* request.cookies.get(...) or request.headers.get("Authorization", "").removeprefix("Bearer ").strip()
extract_token_header_first(cookies, headers) ==
  LET bearer == strip(removeprefix(DictGet(headers, "Authorization", <<>>), BearerPrefix))
  IN IF bearer # <<>> THEN bearer ELSE DictGet(cookies, SESSION_COOKIE, <<>>)

extract_token(cookies, headers) ==
  IF SESSION_COOKIE \in DOMAIN cookies /\ cookies[SESSION_COOKIE] # <<>>
    THEN cookies[SESSION_COOKIE]
    ELSE strip(removeprefix(DictGet(headers, "Authorization", <<>>), BearerPrefix))

portfolio_handler_consuming(cookies, headers, S) ==
  LET token == extract_token(cookies, headers) IN
    IF ~validate_token(token, S)
      THEN [resp |-> ErrorResponse("unauthorized"), sessions |-> S]
      ELSE [resp |-> DataResponse(mock_fetch_portfolio(token)),
            sessions |-> [k \in DOMAIN S \ {token} |-> S[k]]]

\* portfolio(): the response and the SESSIONS it leaves.
portfolio_handler(cookies, headers, S) ==
  LET token == extract_token(cookies, headers) IN
    IF ~validate_token(token, S)
      THEN [resp |-> ErrorResponse("unauthorized"), sessions |-> S]
      ELSE [resp |-> DataResponse(mock_fetch_portfolio(token)), sessions |-> S]

\* History: the username of the login that first returned `token`.
Remember(f, token, username) ==
  [k \in DOMAIN f \cup {token} |-> IF k \in DOMAIN f THEN f[k] ELSE username]

Threads == 1..MaxThreads

\* A thread of the threaded server: where it is in its view function, and
\* the view function's locals.  `present` is history: whether the token was
\* a key of SESSIONS at the moment of the lookup.
IdleThread ==
  [pc |-> "idle", route |-> "none", username |-> Null, token |-> <<>>,
   status |-> 0, present |-> FALSE]

Init ==
  /\ SESSIONS = EmptyMap
  /\ generated = {}
  /\ req = NoRequest
  /\ resp = NoResponse
  /\ before = EmptyMap
  /\ first = EmptyMap
  /\ th = [i \in Threads |-> IdleThread]

\* POST /api/login, handled to completion.
login ==
  \E body \in Bodies :
    /\ req' = LoginRequest(body)
    /\ before' = SESSIONS
    /\ IF login_draws_token(body)
         THEN \E token \in token_hex(generated) :
                LET out == login_handler(body, token, SESSIONS) IN
                  /\ generated' = generated \cup {token}
                  /\ SESSIONS' = out.sessions
                  /\ resp' = out.resp
                  /\ first' = Remember(first, token, SESSIONS'[token])
         ELSE LET out == login_handler(body, <<>>, SESSIONS) IN
                /\ SESSIONS' = out.sessions
                /\ resp' = out.resp
                /\ UNCHANGED <<generated, first>>
    /\ UNCHANGED th

\* GET /api/portfolio, handled to completion.
portfolio ==
  \E cookies \in Cookies, headers \in Headers :
    LET out == portfolio_handler(cookies, headers, SESSIONS) IN
      /\ req' = PortfolioRequest(cookies, headers)
      /\ before' = SESSIONS
      /\ SESSIONS' = out.sessions
      /\ resp' = out.resp
      /\ UNCHANGED <<generated, first, th>>

Next == login \/ portfolio

Spec == Init /\ [][Next]_vars

-----------------------------------------------------------------------------
(* Properties *)

NonEmptyStr(x) == x.t = "str" /\ x.v # ""

\* The last request was a login with a JSON object body.
LoginWithObject == req.route = "login" /\ req.body.t = "dict"

\* A field of the last login's body is missing or the empty string.
FieldEmpty(key) == key \notin DOMAIN req.body.v \/ req.body.v[key] = Str("")

Keys(S) == DOMAIN S

\* C1: a login whose username and password are both non-empty strings
\* succeeds, returns a token that was no key before, records
\* token -> username, and a portfolio request made right after it with
\* that token, as the cookie the response set or as a Bearer header, gets 200.
C1_LoginThenAuthorized ==
  (/\ LoginWithObject
   /\ ~FieldEmpty("username") /\ NonEmptyStr(req.body.v["username"])
   /\ ~FieldEmpty("password") /\ NonEmptyStr(req.body.v["password"]))
  => /\ resp.status = 200
     /\ resp.ok
     /\ resp.token \in Tokens
     /\ resp.token \notin Keys(before)
     /\ resp.set_cookie = CookieJar(resp.token)
     /\ resp.token \in Keys(SESSIONS)
     /\ SESSIONS[resp.token] = req.body.v["username"]
     /\ portfolio_handler(resp.set_cookie, NoHeaders, SESSIONS).resp.status = 200
     /\ portfolio_handler(NoCookies, Authorization(BearerPrefix \o resp.token),
                          SESSIONS).resp.status = 200

C1_Witness ==
  /\ LoginWithObject
  /\ req.body.v = [k \in LoginKeys |-> IF k = "username" THEN Str("bob") ELSE Str("alice")]
  /\ resp.status = 200
  /\ Keys(before) # {}

\* C2: a login whose username or password is empty or missing (an absent
\* body included) is answered 401 invalid credentials, without a token or a
\* cookie, no token is drawn and SESSIONS is what it was.
C2_EmptyCredentialRejected ==
  (/\ req.route = "login"
   /\ \/ req.body = PyNone
      \/ req.body.t = "dict" /\ (FieldEmpty("username") \/ FieldEmpty("password")))
  => /\ resp = ErrorResponse("invalid credentials")
     /\ resp.status = 401
     /\ resp.token = <<>>
     /\ resp.set_cookie = NoCookies
     /\ SESSIONS = before
     /\ generated = Keys(before)

C2_Witness ==
  /\ LoginWithObject
  /\ req.body.v = [k \in LoginKeys |-> IF k = "username" THEN Str("") ELSE Str("alice")]
  /\ resp.status = 401
  /\ Keys(SESSIONS) # {}

\* C3: the keys of SESSIONS are exactly the tokens successful logins have
\* returned, and a portfolio request is authorized iff the token it
\* presents is one of them: the empty string, an absent token and any
\* token never returned get 401.
C3_OnlyReturnedTokensValid ==
  /\ Keys(SESSIONS) = Keys(first)
  /\ \A c \in Cookies, h \in Headers :
       portfolio_handler(c, h, SESSIONS).resp.status =
         IF extract_token(c, h) \in Keys(first) THEN 200 ELSE 401
  /\ portfolio_handler(NoCookies, NoHeaders, SESSIONS).resp.status = 401
  /\ portfolio_handler(CookieJar(<<>>), NoHeaders, SESSIONS).resp.status = 401
  /\ \A t \in (Tokens \cup {Junk}) \ Keys(first) :
       /\ portfolio_handler(CookieJar(t), NoHeaders, SESSIONS).resp.status = 401
       /\ portfolio_handler(NoCookies, Authorization(BearerPrefix \o t),
                            SESSIONS).resp.status = 401
  /\ req.route = "portfolio"
       => (resp.status = 200 <=> extract_token(req.cookies, req.headers) \in Keys(first))

C3_Witness ==
  /\ req.route = "portfolio"
  /\ Keys(first) # {}
  /\ \E t \in Tokens \ Keys(first) : req.cookies = CookieJar(t)
  /\ resp.status = 401

\* C4: every token a successful login has returned is still a key of
\* SESSIONS and still authorizes a portfolio request, whatever requests
\* came after it.
C4_TokensStayValid ==
  \A t \in Keys(first) :
    /\ t \in Keys(SESSIONS)
    /\ portfolio_handler(CookieJar(t), NoHeaders, SESSIONS).resp.status = 200
    /\ portfolio_handler(NoCookies, Authorization(BearerPrefix \o t),
                         SESSIONS).resp.status = 200

C4_Witness ==
  /\ Cardinality(Keys(first)) >= 2
  /\ req.route = "portfolio"
  /\ resp.status = 200

\* C5: a present, non-empty ibkr_session cookie alone decides a portfolio
\* request and the Authorization header is ignored; the header's value,
\* without the "Bearer " prefix and stripped, decides only when the cookie
\* is absent or empty.
C5_CookieFirst ==
  req.route = "portfolio" =>
    IF SESSION_COOKIE \in DOMAIN req.cookies /\ req.cookies[SESSION_COOKIE] # <<>>
      THEN resp.status = IF req.cookies[SESSION_COOKIE] \in Keys(SESSIONS) THEN 200 ELSE 401
      ELSE resp.status =
             IF strip(removeprefix(DictGet(req.headers, "Authorization", <<>>), BearerPrefix))
                  \in Keys(SESSIONS)
               THEN 200 ELSE 401

C5_Witness ==
  /\ req.route = "portfolio"
  /\ req.cookies = CookieJar(Junk)
  /\ \E t \in Keys(SESSIONS) : req.headers = Authorization(BearerPrefix \o t)
  /\ resp.status = 401

\* C6: for two valid tokens of different usernames the two 200 responses
\* are the same: three positions and cash 18250.
C6_SnapshotSameForAll ==
  /\ \A t1, t2 \in Keys(SESSIONS) :
       SESSIONS[t1] # SESSIONS[t2] =>
         LET r1 == portfolio_handler(CookieJar(t1), NoHeaders, SESSIONS).resp
             r2 == portfolio_handler(CookieJar(t2), NoHeaders, SESSIONS).resp
         IN /\ r1.status = 200
            /\ r1 = r2
            /\ Len(r1.data.positions) = 3
            /\ r1.data.cash = 18250
  /\ (req.route = "portfolio" /\ resp.status = 200)
       => resp.data = mock_fetch_portfolio(Junk)

C6_Witness ==
  /\ \E t1, t2 \in Keys(SESSIONS) : SESSIONS[t1] # SESSIONS[t2]
  /\ req.route = "portfolio"
  /\ resp.status = 200

\* C7: the username under a token is the username of the login that first
\* inserted the token; no later request changes it.
C7_RecordNeverMutated ==
  \A t \in Keys(SESSIONS) : t \in Keys(first) /\ SESSIONS[t] = first[t]

C7_Witness ==
  /\ req.route = "login"
  /\ resp.status = 200
  /\ \E t \in Keys(before) : SESSIONS[t] # SESSIONS[resp.token]

\* C9: a portfolio request, answered 200 or 401, leaves SESSIONS as it was.
C9_PortfolioPureLookup ==
  req.route = "portfolio" => SESSIONS = before /\ resp.status \in {200, 401}

C9_Witness ==
  /\ req.route = "portfolio"
  /\ resp.status = 200
  /\ Cardinality(Keys(SESSIONS)) >= 2

\* C10: every login request ends either in 200 with a token and exactly one
\* new entry of SESSIONS, or in 401 invalid credentials with SESSIONS
\* unchanged.
C10_LoginTwoOutcomes ==
  req.route = "login" =>
    \/ /\ resp.status = 200
       /\ resp.token \in Keys(SESSIONS) \ Keys(before)
       /\ Cardinality(Keys(SESSIONS)) = Cardinality(Keys(before)) + 1
    \/ /\ resp = ErrorResponse("invalid credentials")
       /\ SESSIONS = before


-----------------------------------------------------------------------------
(* The same view functions run by concurrent threads, one request each.    *)
(* A step is one access to the shared dict or to the token generator; the  *)
(* interpreter makes each dict operation atomic.                           *)

\* Credentials sent by the concurrent clients.
ConcBodies ==
  {JsonDict([k \in LoginKeys |-> IF k = "username" THEN Str(u) ELSE Str("secret")]) :
     u \in {"alice", "bob", ""}}

\* Tokens the concurrent clients present, as the CLI does: a Bearer header.
ConcHeaders == {Authorization(BearerPrefix \o p) : p \in Tokens \cup {Junk}}

\* login(), up to the credential check.
t_login_begin(i) ==
  /\ th[i].pc = "idle"
  /\ \E body \in ConcBodies :
       LET data == get_json_or_empty(body) IN
         th' = [th EXCEPT ![i] =
                  IF login_draws_token(body)
                    THEN [@ EXCEPT !.pc = "token", !.route = "login",
                                   !.username = DictGet(data.v, "username", Str(""))]
                    ELSE [@ EXCEPT !.pc = "done", !.route = "login",
                                   !.status = login_handler(body, <<>>, SESSIONS).resp.status]]
  /\ UNCHANGED <<SESSIONS, generated, req, resp, before, first>>

\* token = secrets.token_hex(16)
t_login_token(i) ==
  /\ th[i].pc = "token"
  /\ \E token \in token_hex(generated) :
       /\ generated' = generated \cup {token}
       /\ th' = [th EXCEPT ![i].pc = "store", ![i].token = token]
  /\ UNCHANGED <<SESSIONS, req, resp, before, first>>

\* SESSIONS[token] = username, and the response.
t_login_store(i) ==
  /\ th[i].pc = "store"
  /\ SESSIONS' = SetItem(SESSIONS, th[i].token, th[i].username)
  /\ first' = Remember(first, th[i].token, th[i].username)
  /\ th' = [th EXCEPT ![i].pc = "done", ![i].status = LoginOk(th[i].token).status]
  /\ UNCHANGED <<generated, req, resp, before>>

\* portfolio(): the token is taken from the request.
t_portfolio_begin(i) ==
  /\ th[i].pc = "idle"
  /\ \E headers \in ConcHeaders :
       th' = [th EXCEPT ![i].pc = "validate", ![i].route = "portfolio",
                        ![i].token = extract_token(NoCookies, headers)]
  /\ UNCHANGED <<SESSIONS, generated, req, resp, before, first>>

\* validate_token(token), and the response.
t_portfolio_validate(i) ==
  /\ th[i].pc = "validate"
  /\ th' = [th EXCEPT ![i].pc = "done",
                      ![i].present = (th[i].token \in DOMAIN SESSIONS),
                      ![i].status =
                        IF validate_token(th[i].token, SESSIONS)
                          THEN DataResponse(mock_fetch_portfolio(th[i].token)).status
                          ELSE ErrorResponse("unauthorized").status]
  /\ UNCHANGED <<SESSIONS, generated, req, resp, before, first>>

NextConc ==
  \E i \in Threads :
    \/ t_login_begin(i)
    \/ t_login_token(i)
    \/ t_login_store(i)
    \/ t_portfolio_begin(i)
    \/ t_portfolio_validate(i)

SpecConc == Init /\ [][NextConc]_vars

-----------------------------------------------------------------------------
(* Properties of the concurrent runs *)

Done(i) == th[i].pc = "done"

LoggedIn == {i \in Threads : th[i].route = "login" /\ Done(i) /\ th[i].status = 200}

\* C8: in every interleaving, a login that has stored its token finds it in
\* SESSIONS under its own username ever after; when all threads are done
\* SESSIONS holds exactly the tokens of the successful logins, one entry
\* each; and a lookup answers 200 exactly when its token was a key at the
\* moment of the lookup.
C8_RacesBenign ==
  /\ \A i \in LoggedIn :
       th[i].token \in Keys(SESSIONS) /\ SESSIONS[th[i].token] = th[i].username
  /\ (\A i \in Threads : Done(i))
       => /\ Keys(SESSIONS) = {th[i].token : i \in LoggedIn}
          /\ Cardinality(Keys(SESSIONS)) = Cardinality(LoggedIn)
  /\ \A i \in Threads :
       (th[i].route = "portfolio" /\ Done(i))
         => /\ th[i].status = IF th[i].present THEN 200 ELSE 401
            /\ th[i].status = 200 => th[i].token \in Keys(SESSIONS)

\* Two logins of different users and a lookup that ran before the store of
\* the token it presented.
C8_Witness ==
  /\ \A i \in Threads : Done(i)
  /\ \E i, j \in LoggedIn : th[i].username # th[j].username
  /\ \E i \in Threads :
       /\ th[i].route = "portfolio"
       /\ th[i].status = 401
       /\ th[i].token \in Keys(SESSIONS)


====
